---- MODULE Spec2Model ----
(***************************************************************************)
(* Availability and booking-conflict engine of the booking platform        *)
(* (core/utils.py, core/views.py, core/models.py, core/serializers.py).    *)
(*                                                                         *)
(* Instants are whole minutes counted from Monday 00:00 of the first week  *)
(* (Monday 29 September 2025).  The tables, the Celery queue and the cache *)
(* are the state; Service durations and the services_offered relation are  *)
(* fixed configuration.                                                    *)
(***************************************************************************)
EXTENDS Integers, Sequences, FiniteSets, TLC

VARIABLES
    bookings,        \* Booking table, in insertion (id) order
    availabilities,  \* ServiceProviderAvailability rows
    exceptions,      \* AvailabilityException rows
    req,             \* the request being served / last served
    resp,            \* the HTTP response of the last request
    ret,             \* the value the last call returned, or the body of the
                     \* last read response
    pc,              \* per worker: position inside the handler it runs
    local,           \* per worker: the validated data of its request
    recurrences,     \* Recurrence table
    tasks,           \* Celery queue: the dispatched tasks, in order
    prices,          \* Service.base_price and unit_price per service, in cents
    reviews,         \* Review table
    rating,          \* ServiceProvider.rating per provider
    max_participants,      \* GroupBooking.max_participants
    current_participants,  \* GroupBooking.current_participants
    participants,    \* GroupParticipant table of the group booking
    cache            \* Django cache: key -> cached availability list

vars == <<bookings, availabilities, exceptions, req, resp, ret, pc, local,
          recurrences, tasks, prices, reviews, rating,
          max_participants, current_participants, participants, cache>>

\* The variables outside the booking tables and the Celery queue.
catalogVars == <<prices, reviews, rating>>
groupVars == <<max_participants, current_participants, participants>>

----------------------------------------------------------------------------
(* Bounds of the model *)

MaxBookings == 2      \* rows the sequential specifications insert
MaxTable == 2         \* rows of the tables the query specification starts from
MaxOccurrences == 4   \* occurrences one recurrence expansion may create
MaxParticipants == 2  \* largest max_participants of the group booking
MaxWindows == 2       \* rows of the ServiceProviderAvailability table

----------------------------------------------------------------------------
(* Calendar arithmetic on instants *)

MinutesPerDay == 24 * 60

DayNames == <<"Monday", "Tuesday", "Wednesday", "Thursday", "Friday",
              "Saturday", "Sunday">>

\* parsed_time.strftime('%A')
WeekdayName(t) == DayNames[((t \div MinutesPerDay) % 7) + 1]

\* parsed_time.time()
TimeOfDay(t) == t % MinutesPerDay

\* appointment_time.date()
DateOf(t) == t \div MinutesPerDay

\* Calendar dates.  Day 0 of the model is Monday 29 September 2025.
\* The date k days after the first of month m of year y, as <<y, m, d>>.
RECURSIVE FromMonthStart(_, _, _)
FromMonthStart(y, m, k) ==
    LET leap == y % 4 = 0 /\ (y % 100 # 0 \/ y % 400 = 0)
        days == IF m = 2 THEN (IF leap THEN 29 ELSE 28)
                ELSE IF m \in {4, 6, 9, 11} THEN 30 ELSE 31
    IN IF k < days THEN <<y, m, k + 1>>
       ELSE IF m = 12 THEN FromMonthStart(y + 1, 1, k - days)
       ELSE FromMonthStart(y, m + 1, k - days)

\* The datetime.date of day number n.
CalendarDate(n) == FromMonthStart(2025, 9, 28 + n)

\* The date of day n as a string, a sequence of character codes ('-' is 45,
\* '0'..'9' are 48..57): 'YYYY-MM-DD', or without the zero padding of month
\* and day.
DateString(n, padded) ==
    LET d == CalendarDate(n)
        two(k) == <<48 + (k \div 10), 48 + (k % 10)>>
        field(k) == IF padded \/ k >= 10 THEN two(k) ELSE <<48 + k>>
    IN two(d[1] \div 100) \o two(d[1] % 100) \o <<45>> \o field(d[2])
           \o <<45>> \o field(d[3])

\* date.isoformat()
IsoFormat(n) == DateString(n, TRUE)

\* The same date written without zero padding, e.g. '2025-10-1'.
LooseFormat(n) == DateString(n, FALSE)

\* Python's str <= str: lexicographic on the character codes.
RECURSIVE StrLeq(_, _)
StrLeq(a, b) ==
    IF a = << >> THEN TRUE
    ELSE IF b = << >> THEN FALSE
    ELSE IF Head(a) < Head(b) THEN TRUE
    ELSE IF Head(a) > Head(b) THEN FALSE
    ELSE StrLeq(Tail(a), Tail(b))

----------------------------------------------------------------------------
(* Configuration: providers, services, services_offered *)

NoneId == 0                       \* a missing (falsy) request parameter
Providers == {1, 2}
ServiceIds == {1, 2, 3}
UnknownService == 9               \* an id with no Service row

\* Service rows: durations in minutes, prices in cents.
ServiceRow(s) ==
    CASE s = 1 -> [duration |-> 60, buffer_time |-> 15, is_active |-> TRUE,
                   base_price |-> 5000, unit_price |-> 2500]
      [] s = 2 -> [duration |-> 15, buffer_time |-> 0, is_active |-> TRUE,
                   base_price |-> 2000, unit_price |-> 4000]
      [] s = 3 -> [duration |-> 60, buffer_time |-> 15, is_active |-> FALSE,
                   base_price |-> 5000, unit_price |-> 2500]

\* provider.services_offered
ServicesOffered(p) == IF p = 1 THEN {1, 2, 3} ELSE {1}

\* The price list at deployment: base_price and unit_price of every service.
ListPrices ==
    [s \in ServiceIds |-> [base_price |-> ServiceRow(s).base_price,
                           unit_price |-> ServiceRow(s).unit_price]]

\* ServiceProvider.rating before any review (the average as the fraction
\* <<sum, count>>), and an absent cache entry.
NoRating == <<0, 1>>
NoEntry == [hit |-> FALSE, rows |-> {}]

\* now() of the requests: Monday 08:00
NowT == 8 * 60

\* the reference instant of the scenarios: Monday 12:00
T0 == 12 * 60

----------------------------------------------------------------------------
(* decimal.Decimal: a number is digits * 10^exp, the digits a sequence with  *)
(* the most significant first.  Arithmetic rounds to the 28 significant      *)
(* digits of the default context, ties to even.                              *)

Precision == 28

Dec(digits, exp) == [digits |-> digits, exp |-> exp]

RECURSIVE StripZeros(_)
StripZeros(d) == IF d # << >> /\ Head(d) = 0 THEN StripZeros(Tail(d)) ELSE d

RECURSIVE NatDigits(_)
NatDigits(n) == IF n = 0 THEN << >> ELSE Append(NatDigits(n \div 10), n % 10)

RECURSIVE DigitsNat(_)
DigitsNat(d) ==
    IF d = << >> THEN 0 ELSE 10 * DigitsNat(SubSeq(d, 1, Len(d) - 1)) + d[Len(d)]

\* d * k + carry on digit sequences, for a machine integer k
RECURSIVE TimesNat(_, _, _)
TimesNat(d, k, carry) ==
    IF d = << >> THEN NatDigits(carry)
    ELSE LET v == d[Len(d)] * k + carry
         IN Append(TimesNat(SubSeq(d, 1, Len(d) - 1), k, v \div 10), v % 10)

RECURSIVE Zeros(_)
Zeros(n) == IF n <= 0 THEN << >> ELSE <<0>> \o Zeros(n - 1)

\* d + n on digit sequences, for a machine integer n
PlusNat(d, n) == TimesNat(d, 1, n)

\* The context's rounding of an exact result.
Round(digits, exp) ==
    LET d == StripZeros(digits) IN
    IF Len(d) <= Precision THEN Dec(d, exp)
    ELSE LET keep == SubSeq(d, 1, Precision)
             rest == SubSeq(d, Precision + 1, Len(d))
             tie == \A i \in 2..Len(rest) : rest[i] = 0
             up == \/ rest[1] > 5
                   \/ rest[1] = 5 /\ ~tie
                   \/ rest[1] = 5 /\ tie /\ keep[Precision] % 2 = 1
         IN Dec(IF up THEN PlusNat(keep, 1) ELSE keep, exp + Len(rest))

\* Decimal(n) / Decimal(d): long division to Precision significant digits,
\* the last one rounded by the remainder.
RECURSIVE LongDivide(_, _, _, _)
LongDivide(r, d, digits, exp) ==
    IF r = 0 THEN Dec(StripZeros(digits), exp)
    ELSE IF Len(StripZeros(digits)) = Precision
    THEN LET up == 2 * r > d \/ (2 * r = d /\ digits[Len(digits)] % 2 = 1)
         IN Dec(StripZeros(IF up THEN PlusNat(digits, 1) ELSE digits), exp)
    ELSE LongDivide((r * 10) % d, d, Append(digits, (r * 10) \div d), exp - 1)

DecimalDivide(n, d) == LongDivide(n % d, d, NatDigits(n \div d), 0)

\* Decimal('k.kk') * x for an amount of k cents
DecimalTimes(cents, x) == Round(TimesNat(x.digits, cents, 0), x.exp - 2)

\* Decimal('k.kk') + x for an amount of k cents
DecimalPlus(cents, x) ==
    IF x.exp >= -2
    THEN Round(PlusNat(x.digits \o Zeros(x.exp + 2), cents), -2)
    ELSE LET width == -2 - x.exp
             padded == Zeros(width - Len(x.digits)) \o x.digits
             whole == SubSeq(padded, 1, Len(padded) - width)
             fraction == SubSeq(padded, Len(padded) - width + 1, Len(padded))
         IN Round(PlusNat(whole, cents) \o fraction, x.exp)

\* DecimalField(decimal_places=2) on save: the value quantized to cents,
\* ties to even; the result is the number of cents.
Quantize(x) ==
    IF x.exp >= -2
    THEN DigitsNat(x.digits \o Zeros(x.exp + 2))
    ELSE LET width == -2 - x.exp
             padded == Zeros(width + 1 - Len(x.digits)) \o x.digits
             whole == DigitsNat(SubSeq(padded, 1, Len(padded) - width))
             rest == SubSeq(padded, Len(padded) - width + 1, Len(padded))
             tie == \A i \in 2..Len(rest) : rest[i] = 0
             up == \/ rest[1] > 5
                   \/ rest[1] = 5 /\ ~tie
                   \/ rest[1] = 5 /\ tie /\ whole % 2 = 1
         IN IF up THEN whole + 1 ELSE whole

----------------------------------------------------------------------------
(* Booking and Service models *)

Users == {1, 2}

\* request.user of the booking requests
Customer == 1

\* A duration or date field that is not set.
NoDuration == 0
NoDate == 0 - 1

\* duration_hours = Decimal(duration.total_seconds()) / Decimal(3600), with
\* the duration in whole minutes
DurationHours(duration) == DecimalDivide(duration * 60, 3600)

\* Service.calculate_price(duration) for a service with the price row pr;
\* duration None falls back to the service's duration.  A Decimal.
ServiceCalculatePrice(pr, s, duration) ==
    LET d == IF duration = NoDuration THEN ServiceRow(s).duration ELSE duration
    IN DecimalPlus(pr.base_price, DecimalTimes(pr.unit_price, DurationHours(d)))

\* Booking.calculate_price() of row b under the price row pr.  A Decimal.
BookingCalculatePrice(pr, b) ==
    LET d == IF b.duration # NoDuration THEN b.duration
             ELSE ServiceRow(b.service).duration
    IN DecimalPlus(pr.base_price, DecimalTimes(pr.unit_price, DurationHours(d)))

\* The stored price, in cents, of a booking of service s lasting `duration`
\* minutes under the list prices.
CalculatePrice(s, duration) ==
    Quantize(ServiceCalculatePrice(ListPrices[s], s, duration))

\* A Booking instance before its first save.
UnsavedBooking(u, p, s, t) ==
    [user |-> u, provider |-> p, service |-> s, t |-> t,
     duration |-> NoDuration, date |-> NoDate, total_price |-> 0,
     status |-> "pending"]

\* Booking.save under the price table pr: duration falls back to the
\* service's, date is derived from appointment_time when not set, and
\* total_price is computed again.
BookingSave(b, pr) ==
    LET filled == [b EXCEPT
                     !.duration = IF @ = NoDuration
                                  THEN ServiceRow(b.service).duration ELSE @,
                     !.date = IF @ = NoDate THEN DateOf(b.t) ELSE @]
    IN [filled EXCEPT
          !.total_price = Quantize(BookingCalculatePrice(pr[b.service], filled))]

\* The row Booking.objects.create stores for the customer under the list
\* prices.
NewBooking(p, s, t) == BookingSave(UnsavedBooking(Customer, p, s, t), ListPrices)

\* Booking.objects.create(user, service_provider, service, appointment_time)
\* under the current prices.
InsertBooking(u, p, s, t) == BookingSave(UnsavedBooking(u, p, s, t), prices)

----------------------------------------------------------------------------
(* core/utils.py *)

\* appointment_time strings: absent, not well formatted, well formatted but
\* no valid datetime, or the ISO form of instant t.
NoTimeStr == [kind |-> "none", t |-> 0]
GarbageStr == [kind |-> "malformed", t |-> 0]
BadValueStr == [kind |-> "badvalue", t |-> 0]
IsoStr(t) == [kind |-> "iso", t |-> t]

\* django.utils.dateparse.parse_datetime: "Raise ValueError if the input is
\* well formatted but not a valid datetime. Return None if the input isn't
\* well formatted." ('invalid-time-format' gives None, '2025-02-30T10:00:00'
\* raises.)
ParseDatetime(str) ==
    CASE str.kind = "iso" -> [tag |-> "ok", t |-> str.t]
      [] str.kind = "badvalue" -> [tag |-> "raise", t |-> 0]
      [] OTHER -> [tag |-> "none", t |-> 0]

\* AvailabilityExists with the end of the window excluded (end_time__gt).
AvailabilityExists_StrictEnd(rows, p, t) ==
    \E a \in rows :
        /\ a.provider = p
        /\ a.day_of_week = WeekdayName(t)
        /\ a.start_time <= TimeOfDay(t)
        /\ a.end_time > TimeOfDay(t)

\* ServiceProviderAvailability.objects.filter(service_provider_id, day_of_week,
\*     start_time__lte, end_time__gte).exists()
AvailabilityExists(rows, p, t) ==
    \E a \in rows :
        /\ a.provider = p
        /\ a.day_of_week = WeekdayName(t)
        /\ a.start_time <= TimeOfDay(t)
        /\ a.end_time >= TimeOfDay(t)

\* Booking.objects.filter(service_provider_id, appointment_time__range=
\*     (buffer_start, buffer_end)).exists()
RangeOverlap(table, p, t, s) ==
    LET buffer_time == ServiceRow(s).buffer_time
        buffer_start == t - buffer_time
        buffer_end == t + ServiceRow(s).duration + buffer_time
    IN \E i \in 1..Len(table) :
           /\ table[i].provider = p
           /\ table[i].t >= buffer_start
           /\ table[i].t <= buffer_end

Response(available, reason, status) ==
    [available |-> available, reason |-> reason, status |-> status]

NoResp == Response(FALSE, "", 0)

\* check_provider_availability followed by format_availability_response; an
\* exception leaving the view is the server-error response.
CheckProviderAvailability(table, rows, p, s, str) ==
    IF p = NoneId \/ s = NoneId \/ str.kind = "none"
    THEN Response(FALSE, "Missing required parameters.", 400)
    ELSE LET parsed == ParseDatetime(str) IN
         IF parsed.tag = "raise"
         THEN Response(FALSE, "ValueError", 500)
         ELSE IF parsed.tag = "none"
         THEN Response(FALSE, "Invalid appointment_time format.", 400)
         ELSE IF ~AvailabilityExists(rows, p, parsed.t)
         THEN Response(FALSE, "Provider not available at this time.", 200)
         ELSE IF s \notin ServiceIds
         THEN Response(FALSE, "Service does not exist.", 200)
         ELSE IF RangeOverlap(table, p, parsed.t, s)
         THEN Response(FALSE, "Overlapping booking found.", 200)
         ELSE Response(TRUE, "Time slot is available.", 200)

\* check_booking_overlap with cancelled bookings left out of the query.
CheckBookingOverlap_ActiveOnly(table, p, t, s) ==
    LET buffer_time == ServiceRow(s).buffer_time
        service_duration == ServiceRow(s).duration
        buffer_start == t - buffer_time
        buffer_end == t + service_duration + buffer_time
    IN \E i \in 1..Len(table) :
           /\ table[i].provider = p
           /\ table[i].status # "cancelled"
           /\ table[i].t < buffer_end
           /\ table[i].t > buffer_start - service_duration - buffer_time

\* check_booking_overlap
CheckBookingOverlap(table, p, t, s) ==
    LET buffer_time == ServiceRow(s).buffer_time
        service_duration == ServiceRow(s).duration
        buffer_start == t - buffer_time
        buffer_end == t + service_duration + buffer_time
    IN \E i \in 1..Len(table) :
           /\ table[i].provider = p
           /\ table[i].t < buffer_end
           /\ table[i].t > buffer_start - service_duration - buffer_time

----------------------------------------------------------------------------
(* core/utils.py: handle_booking_tasks *)

\* The three dispatches, in the order of the code.
TaskOrder == <<"email", "calendar", "invoice">>
TaskKinds == {TaskOrder[i] : i \in 1..Len(TaskOrder)}

\* handle_booking_tasks(booking, logger): one try/except block per dispatch.
\* Every attempt is recorded with whether .delay() put the task on the queue;
\* an exception of .delay() is logged and the next block runs.  raised tells
\* whether an exception leaves the function.
RECURSIVE DispatchFrom(_, _, _, _)
DispatchFrom(queue, id, up, i) ==
    IF i > Len(TaskOrder) THEN [queue |-> queue, raised |-> FALSE]
    ELSE DispatchFrom(
             Append(queue, [task |-> TaskOrder[i], booking |-> id,
                            sent |-> TaskOrder[i] \in up]),
             id, up, i + 1)

\* handle_booking_tasks without the try/except blocks: the first dispatch
\* the broker refuses raises, and the dispatches after it are not attempted.
HandleBookingTasks_Propagating(queue, id, up) ==
    LET failed == {i \in 1..Len(TaskOrder) : TaskOrder[i] \notin up}
        last == IF failed = {} THEN Len(TaskOrder)
                ELSE CHOOSE i \in failed : \A j \in failed : i <= j
    IN [queue |-> queue \o [i \in 1..last |->
                     [task |-> TaskOrder[i], booking |-> id,
                      sent |-> TaskOrder[i] \in up]],
        raised |-> failed # {}]

HandleBookingTasks(queue, id, up) == DispatchFrom(queue, id, up, 1)

----------------------------------------------------------------------------
(* core/views.py: recurrence *)

Frequencies == {"daily", "weekly", "monthly"}

\* request.data['recurrence']; NoRecurrence is a request without the key.
Recurrence(frequency, interval, end_date) ==
    [frequency |-> frequency, interval |-> interval, end_date |-> end_date]

NoRecurrence == Recurrence("none", 0, << >>)

\* Days whose date strings the requests may carry as end_date.
HorizonDays == 40

\* models.DateField.to_python for Recurrence.end_date: parse_date accepts
\* 'YYYY-MM-DD' with one- or two-digit month and day; anything else is a
\* django ValidationError.
DateStrings == [n \in 0..HorizonDays |-> {IsoFormat(n), LooseFormat(n)}]

ParseDate(str) ==
    IF \E n \in 0..HorizonDays : str \in DateStrings[n]
    THEN [tag |-> "ok",
          day |-> CHOOSE n \in 0..HorizonDays : str \in DateStrings[n]]
    ELSE [tag |-> "invalid", day |-> 0]

\* BookingViewSet.get_recurrence_delta, in minutes
GetRecurrenceDelta(frequency, interval) ==
    CASE frequency = "daily" -> interval * MinutesPerDay
      [] frequency = "weekly" -> 7 * interval * MinutesPerDay
      [] frequency = "monthly" -> 30 * interval * MinutesPerDay

\* The while loop of _handle_recurrence, entered with current_time and with
\* `table` the Booking table as the transaction sees it; n counts the
\* occurrences created so far.
RECURSIVE Expand(_, _, _, _, _, _)
Expand(table, p, s, current_time, rec, n) ==
    LET result(tag, reason) ==
            [tag |-> tag, bookings |-> table, reason |-> reason]
    IN IF ~StrLeq(IsoFormat(DateOf(current_time)), rec.end_date)
       THEN result("ok", "")
       ELSE IF rec.frequency \notin Frequencies
       THEN result("error", "Invalid recurrence frequency.")
       ELSE LET next == current_time
                            + GetRecurrenceDelta(rec.frequency, rec.interval)
            IN IF ~StrLeq(IsoFormat(DateOf(next)), rec.end_date)
               THEN result("ok", "")
               ELSE IF CheckBookingOverlap(table, p, next, s)
               THEN result("error",
                      "A recurring appointment conflicts with an existing booking.")
               ELSE IF n = MaxOccurrences
               THEN result("cap", "")
               ELSE Expand(Append(table, InsertBooking(Customer, p, s, next)),
                           p, s, next, rec, n + 1)

\* _handle_recurrence(booking, service, provider) for the seed just saved as
\* the last row of `table`.
HandleRecurrence(table, recs, p, s, t, rec) ==
    IF rec = NoRecurrence
    THEN [tag |-> "ok", bookings |-> table, recurrences |-> recs,
          reason |-> "", status |-> 201]
    ELSE IF rec.end_date = << >>
    THEN [tag |-> "error", bookings |-> table, recurrences |-> recs,
          reason |-> "Recurrence requires an end_date.", status |-> 400]
    ELSE IF ParseDate(rec.end_date).tag = "invalid"
    THEN [tag |-> "error", bookings |-> table, recurrences |-> recs,
          reason |-> "ValidationError", status |-> 500]
    ELSE LET rule == [booking |-> Len(table), frequency |-> rec.frequency,
                      interval |-> rec.interval,
                      end_date |-> ParseDate(rec.end_date).day]
             loop == Expand(table, p, s, t, rec, 0)
         IN [tag |-> loop.tag, bookings |-> loop.bookings,
             recurrences |-> Append(recs, rule),
             reason |-> loop.reason, status |-> 400]

\* with transaction.atomic(): the writes of the block are kept when it is
\* left normally and undone when an exception leaves it.
Atomic_KeepPartial(before, inside, failed) == inside

Atomic(before, inside, failed) == IF failed THEN before ELSE inside

----------------------------------------------------------------------------
(* core/serializers.py *)

\* BookingSerializer.is_valid: validate_appointment_time, then validate, on
\* validated data that holds the Service and ServiceProvider rows the request
\* names (validate and perform_create read is_active, services_offered,
\* duration and buffer_time from them).
\* "ok" or the message of the first validation error.
ValidateBooking(p, s, t) ==
    IF t < NowT THEN "Appointment time must be in the future"
    ELSE IF ~ServiceRow(s).is_active
    THEN "This service is currently not available"
    ELSE IF s \notin ServicesOffered(p)
    THEN "This service provider does not offer this service"
    ELSE "ok"

----------------------------------------------------------------------------
(* Requests *)

Request(op, p, s, str) ==
    [op |-> op, provider |-> p, service |-> s, time |-> str,
     recurrence |-> NoRecurrence, user |-> NoneId, booking |-> NoneId]

\* A create request that carries a 'recurrence' key.
RecurringRequest(p, s, str, rec) ==
    [Request("create", p, s, str) EXCEPT !.recurrence = rec]

NoReq == Request("none", NoneId, NoneId, NoTimeStr)

\* Instants the booking requests of the sequential specifications name:
\* one in the past, then Monday 12:00, 12:10 and 12:30.
CreateTimes == {60, T0, T0 + 10, T0 + 30}

Workers == {1, 2}

IdleLocal == [provider |-> NoneId, service |-> NoneId, t |-> 0, outcome |-> "none"]

----------------------------------------------------------------------------
(* core/views.py: booking creation, one request at a time *)

\* BookingViewSet.create: serializer validation, then perform_create.  The
\* overlap check runs first; serializer.save, handle_booking_tasks and
\* _handle_recurrence run inside one transaction.atomic block, and the
\* exception that leaves it is re-raised to the framework.  `up` is the set
\* of task kinds whose dispatch the broker accepts during this request.
CreateBooking(p, s, t, rec, up) ==
    /\ Len(bookings) < MaxBookings
    /\ req' = RecurringRequest(p, s, IsoStr(t), rec)
    /\ LET verdict == ValidateBooking(p, s, t) IN
       \/ /\ verdict # "ok"
          /\ resp' = Response(FALSE, verdict, 400)
          /\ UNCHANGED <<bookings, recurrences, tasks>>
       \/ /\ verdict = "ok"
          /\ CheckBookingOverlap(bookings, p, t, s)
          /\ resp' = Response(FALSE,
                 "This time slot is unavailable due to buffer constraints.", 400)
          /\ UNCHANGED <<bookings, recurrences, tasks>>
       \/ /\ verdict = "ok"
          /\ ~CheckBookingOverlap(bookings, p, t, s)
          /\ LET saved == Append(bookings, InsertBooking(Customer, p, s, t))
                 sent == HandleBookingTasks(tasks, Len(saved), up)
                 out == IF sent.raised
                        THEN [tag |-> "error", bookings |-> saved,
                              recurrences |-> recurrences,
                              reason |-> "Exception", status |-> 500]
                        ELSE HandleRecurrence(saved, recurrences, p, s, t, rec)
                 after == Atomic([bookings |-> bookings, recurrences |-> recurrences],
                                 [bookings |-> out.bookings,
                                  recurrences |-> out.recurrences],
                                 out.tag = "error")
             IN /\ out.tag # "cap"
                /\ tasks' = sent.queue
                /\ bookings' = after.bookings
                /\ recurrences' = after.recurrences
                /\ resp' = IF out.tag = "error"
                           THEN Response(FALSE, out.reason, out.status)
                           ELSE Response(FALSE, "created", 201)
    /\ UNCHANGED <<availabilities, exceptions, ret, pc, local,
                   catalogVars, groupVars, cache>>

\* BookingViewSet.create for a request without a 'recurrence' key, with the
\* broker accepting every dispatch.
PerformCreate(p, s, t) == CreateBooking(p, s, t, NoRecurrence, TaskKinds)

\* The function-based bookings view, POST: the serializer is built without a
\* context, so BookingSerializer.create fails on self.context['request'] once
\* validation has passed; nothing is inserted.
BookingsPost(p, s, t) ==
    /\ Len(bookings) < MaxBookings
    /\ req' = Request("bookings_post", p, s, IsoStr(t))
    /\ LET verdict == ValidateBooking(p, s, t) IN
       \/ /\ verdict # "ok"
          /\ resp' = Response(FALSE, verdict, 400)
       \/ /\ verdict = "ok"
          /\ resp' = Response(FALSE, "KeyError", 500)
    /\ UNCHANGED <<bookings, availabilities, exceptions, ret, pc, local,
                   recurrences, tasks, catalogVars, groupVars, cache>>

\* Booking.objects.create at the model layer (admin, tests, derived rows):
\* Booking.save inserts without any check.
ModelCreate(p, s, t) ==
    /\ Len(bookings) < MaxBookings
    /\ req' = Request("model_create", p, s, IsoStr(t))
    /\ bookings' = Append(bookings, InsertBooking(Customer, p, s, t))
    /\ resp' = Response(FALSE, "created", 201)
    /\ UNCHANGED <<availabilities, exceptions, ret, pc, local,
                   recurrences, tasks, catalogVars, groupVars, cache>>

\* The weekly windows of the sequential specifications: Monday 09:00-17:00.
MondayWindow == [provider |-> 1, day_of_week |-> "Monday",
                 start_time |-> 9 * 60, end_time |-> 17 * 60]

\* GroupBooking.objects.create(..., max_participants=n): the counter starts
\* at its default and no GroupParticipant row exists.
InitGroupBooking(sizes) ==
    /\ max_participants \in sizes
    /\ current_participants = 0
    /\ participants = << >>

\* The state of everything but the booking, availability and exception
\* tables and the group booking after deployment: empty tables, empty queue,
\* cold cache.
InitServer ==
    /\ req = NoReq
    /\ resp = NoResp
    /\ ret = FALSE
    /\ pc = [w \in Workers |-> "idle"]
    /\ local = [w \in Workers |-> IdleLocal]
    /\ recurrences = << >>
    /\ tasks = << >>
    /\ prices = ListPrices
    /\ reviews = << >>
    /\ rating = [p \in Providers |-> NoRating]
    /\ cache = [p \in Providers |-> NoEntry]

InitOther ==
    /\ InitServer
    /\ InitGroupBooking({MaxParticipants})

Init ==
    /\ bookings = << >>
    /\ availabilities = {MondayWindow}
    /\ exceptions = {}
    /\ InitOther

Next ==
    \/ \E p \in Providers, s \in ServiceIds, t \in CreateTimes : PerformCreate(p, s, t)
    \/ \E p \in Providers, s \in ServiceIds, t \in CreateTimes : BookingsPost(p, s, t)
    \/ \E p \in Providers, s \in ServiceIds, t \in CreateTimes : ModelCreate(p, s, t)

Spec == Init /\ [][Next]_vars

\* Only BookingViewSet.create requests.
NextCreate ==
    \E p \in Providers, s \in ServiceIds, t \in CreateTimes : PerformCreate(p, s, t)

SpecCreate == Init /\ [][NextCreate]_vars

----------------------------------------------------------------------------
(* core/views.py: booking creation with a recurrence rule *)

\* Stored tables the recurring requests meet: empty, or one booking of
\* provider 1 half an hour, two days, one week or two weeks after Monday
\* 12:00.
RecurTables ==
    {<< >>,
     <<NewBooking(1, 1, T0 + 30)>>,
     <<NewBooking(1, 1, T0 + 2 * MinutesPerDay)>>,
     <<NewBooking(1, 1, T0 + 7 * MinutesPerDay)>>,
     <<NewBooking(1, 1, T0 + 14 * MinutesPerDay)>>}

\* End dates of the rules: 1, 9, 27 and 29 October and 5 November 2025.
EndDays == {2, 10, 28, 30, 37}

\* The end_date strings of the requests: absent, not a date ('soon'), and
\* the end dates in ISO form and without zero padding.
EndDateStrings ==
    {<< >>, <<115, 111, 111, 110>>}
        \cup {IsoFormat(n) : n \in EndDays} \cup {LooseFormat(n) : n \in EndDays}

RecurrenceRules ==
    {NoRecurrence}
        \cup {Recurrence(f, i, e) : f \in Frequencies \cup {"yearly"},
                                    i \in {1, 2}, e \in EndDateStrings}

\* Seeds of the recurring requests: Monday 12:00 and Tuesday 12:00.
SeedTimes == {T0, T0 + MinutesPerDay}

InitRecur ==
    /\ bookings \in RecurTables
    /\ availabilities = {MondayWindow}
    /\ exceptions = {}
    /\ InitOther

\* One recurring request against the stored table.
NextRecur ==
    \E p \in Providers, s \in {1, 2}, t \in SeedTimes, rec \in RecurrenceRules :
        req = NoReq /\ CreateBooking(p, s, t, rec, TaskKinds)

SpecRecur == InitRecur /\ [][NextRecur]_vars

----------------------------------------------------------------------------
(* core/views.py, core/models.py: the life of a stored booking *)

Statuses == {"pending", "confirmed", "cancelled", "completed"}

\* A request of user u about the stored booking i.
BookingRequest(op, u, i, p, s, str) ==
    [Request(op, p, s, str) EXCEPT !.user = u, !.booking = i]

\* BookingViewSet.cancel_booking
CancelBooking(i) ==
    /\ i \in 1..Len(bookings)
    /\ req' = BookingRequest("cancel", bookings[i].user, i, NoneId, NoneId, NoTimeStr)
    /\ bookings' = [bookings EXCEPT
                      ![i] = BookingSave([@ EXCEPT !.status = "cancelled"], prices)]
    /\ resp' = Response(FALSE, "booking cancelled", 200)
    /\ UNCHANGED <<availabilities, exceptions, ret, pc, local, recurrences,
                   tasks, catalogVars, groupVars, cache>>

\* BookingViewSet.reschedule_booking
RescheduleBooking(i, str) ==
    /\ i \in 1..Len(bookings)
    /\ req' = BookingRequest("reschedule", bookings[i].user, i, NoneId, NoneId, str)
    /\ LET parsed == ParseDatetime(str) IN
       \/ /\ str.kind = "none"
          /\ resp' = Response(FALSE, "No appointment_time provided.", 400)
          /\ UNCHANGED bookings
       \/ /\ str.kind # "none"
          /\ parsed.tag = "raise"
          /\ resp' = Response(FALSE, "ValueError", 500)
          /\ UNCHANGED bookings
       \/ /\ str.kind # "none"
          /\ parsed.tag = "none"
          /\ resp' = Response(FALSE, "Invalid datetime format.", 400)
          /\ UNCHANGED bookings
       \/ /\ parsed.tag = "ok"
          /\ bookings' = [bookings EXCEPT
                            ![i] = BookingSave([@ EXCEPT !.t = parsed.t], prices)]
          /\ resp' = Response(FALSE, "Booking rescheduled successfully.", 200)
    /\ UNCHANGED <<availabilities, exceptions, ret, pc, local, recurrences,
                   tasks, catalogVars, groupVars, cache>>

\* BookingViewSet.update_booking: a partial update whose validated data name
\* provider p, service s and appointment_time t (NoneId: the field is not in
\* the request).  status, payment_status and total_price are read-only.
UpdateBooking(i, p, s, t) ==
    /\ i \in 1..Len(bookings)
    /\ req' = BookingRequest("update", bookings[i].user, i, p, s, IsoStr(t))
    /\ \/ /\ t < NowT
          /\ resp' = Response(FALSE, "Appointment time must be in the future", 400)
          /\ UNCHANGED bookings
       \/ /\ t >= NowT
          /\ (p = NoneId \/ s = NoneId)
          /\ resp' = Response(FALSE, "KeyError", 500)
          /\ UNCHANGED bookings
       \/ /\ p # NoneId
          /\ s # NoneId
          /\ ValidateBooking(p, s, t) # "ok"
          /\ resp' = Response(FALSE, ValidateBooking(p, s, t), 400)
          /\ UNCHANGED bookings
       \/ /\ p # NoneId
          /\ s # NoneId
          /\ ValidateBooking(p, s, t) = "ok"
          /\ bookings' = [bookings EXCEPT
                            ![i] = BookingSave([@ EXCEPT !.provider = p,
                                                         !.service = s,
                                                         !.t = t], prices)]
          /\ resp' = Response(FALSE, "updated", 200)
    /\ UNCHANGED <<availabilities, exceptions, ret, pc, local, recurrences,
                   tasks, catalogVars, groupVars, cache>>

\* BookingViewSet.retrieve: BookingSerializer.get_total_price reports
\* obj.calculate_price(), a Decimal.
RetrieveBooking(i) ==
    /\ i \in 1..Len(bookings)
    /\ req' = BookingRequest("retrieve", bookings[i].user, i, NoneId, NoneId, NoTimeStr)
    /\ ret' = BookingCalculatePrice(prices[bookings[i].service], bookings[i])
    /\ resp' = Response(FALSE, "retrieved", 200)
    /\ UNCHANGED <<bookings, availabilities, exceptions, pc, local, recurrences,
                   tasks, catalogVars, groupVars, cache>>

\* ServiceViewSet.update / ServiceAdmin: base_price and unit_price of
\* service s are set to the price row pr.
UpdateServicePrice(s, pr) ==
    /\ prices[s] # pr
    /\ req' = Request("service_price", NoneId, s, NoTimeStr)
    /\ prices' = [prices EXCEPT ![s] = pr]
    /\ resp' = Response(FALSE, "updated", 200)
    /\ UNCHANGED <<bookings, availabilities, exceptions, ret, pc, local,
                   recurrences, tasks, reviews, rating, groupVars, cache>>

\* Review.clean: "ok" or the field of the first ValidationError.
ReviewClean_NoUserCheck(u, b) ==
    IF b.status # "completed" THEN "booking" ELSE "ok"

ReviewClean(u, b) ==
    IF b.status # "completed" THEN "booking"
    ELSE IF u # b.user THEN "user"
    ELSE "ok"

\* Avg('rating') over the reviews of provider p, as <<sum, count>>, or 0.
RECURSIVE SumRatings(_, _)
SumRatings(table, p) ==
    IF table = << >> THEN 0
    ELSE (IF Head(table).provider = p THEN Head(table).rating ELSE 0)
             + SumRatings(Tail(table), p)

AvgRating(table, p) ==
    LET n == Cardinality({k \in 1..Len(table) : table[k].provider = p})
    IN IF n = 0 THEN NoRating ELSE <<SumRatings(table, p), n>>

\* Review.objects.create(user=u, service_provider=p, rating=r, booking=i):
\* Review.save runs clean, inserts (unique_together user and provider, one
\* review per booking) and stores the provider's new average rating.
ReviewSave(u, p, i, r) ==
    /\ i \in 1..Len(bookings)
    /\ req' = BookingRequest("review", u, i, p, NoneId, NoTimeStr)
    /\ LET verdict == ReviewClean(u, bookings[i])
           duplicate == \E k \in 1..Len(reviews) :
                            \/ reviews[k].user = u /\ reviews[k].provider = p
                            \/ reviews[k].booking = i
           row == [user |-> u, provider |-> p, rating |-> r, booking |-> i]
       IN \/ /\ verdict # "ok"
             /\ resp' = Response(FALSE, "ValidationError: " \o verdict, 400)
             /\ UNCHANGED <<reviews, rating>>
          \/ /\ verdict = "ok"
             /\ duplicate
             /\ resp' = Response(FALSE, "IntegrityError", 500)
             /\ UNCHANGED <<reviews, rating>>
          \/ /\ verdict = "ok"
             /\ ~duplicate
             /\ reviews' = Append(reviews, row)
             /\ rating' = [rating EXCEPT ![p] = AvgRating(Append(reviews, row), p)]
             /\ resp' = Response(FALSE, "created", 201)
    /\ UNCHANGED <<bookings, availabilities, exceptions, ret, pc, local,
                   recurrences, tasks, prices, groupVars, cache>>

\* Stored bookings of the life-cycle specification: one booking of provider
\* 1, service 1, Monday 12:00, of either user and in any status.
LifeRows ==
    {[NewBooking(1, 1, T0) EXCEPT !.user = u, !.status = st] :
         u \in Users, st \in Statuses}

\* Price rows a service is changed to: the list price of service 1 and a
\* raised one.
PriceRows ==
    {ListPrices[1], [base_price |-> 6000, unit_price |-> 3000]}

RescheduleStrings == {NoTimeStr, GarbageStr, BadValueStr, IsoStr(T0 + MinutesPerDay)}

InitLife ==
    /\ bookings \in {<<b>> : b \in LifeRows}
    /\ availabilities = {MondayWindow}
    /\ exceptions = {}
    /\ InitOther

NextLife ==
    \/ \E i \in 1..Len(bookings) : CancelBooking(i)
    \/ \E i \in 1..Len(bookings), str \in RescheduleStrings : RescheduleBooking(i, str)
    \/ \E i \in 1..Len(bookings), p \in {NoneId, 1}, s \in {NoneId, 1, 2, 3},
          t \in {60, T0 + 120} : UpdateBooking(i, p, s, t)
    \/ \E i \in 1..Len(bookings) : RetrieveBooking(i)
    \/ \E pr \in PriceRows : UpdateServicePrice(1, pr)
    \/ \E u \in Users, i \in 1..Len(bookings), r \in {1, 5} : ReviewSave(u, 1, i, r)

SpecLife == InitLife /\ [][NextLife]_vars

----------------------------------------------------------------------------
(* core/models.py: the price calculator as a function *)

\* The duration argument of a calculate_price call, in minutes; NoDuration
\* is a call without one (or a booking whose duration is not set).
DurationArg(d) == [kind |-> "duration", t |-> d]

\* service.calculate_price(duration)
CallServiceCalculatePrice(s, d) ==
    /\ req' = Request("service_calculate_price", NoneId, s, DurationArg(d))
    /\ ret' = ServiceCalculatePrice(prices[s], s, d)
    /\ UNCHANGED <<bookings, availabilities, exceptions, resp, pc, local,
                   recurrences, tasks, catalogVars, groupVars, cache>>

\* booking.calculate_price() on a Booking instance of service s whose own
\* duration is d
CallBookingCalculatePrice(s, d) ==
    /\ req' = Request("booking_calculate_price", NoneId, s, DurationArg(d))
    /\ ret' = BookingCalculatePrice(prices[s],
                  [UnsavedBooking(Customer, 1, s, T0) EXCEPT !.duration = d])
    /\ UNCHANGED <<bookings, availabilities, exceptions, resp, pc, local,
                   recurrences, tasks, catalogVars, groupVars, cache>>

\* Price rows of the calculator specification: 50.00 + 25.00/h (the test
\* service), 0.00 + 30.00/h, 0.01 + 0.03/h and a free service.
CalculatorPrices ==
    {[base_price |-> 5000, unit_price |-> 2500],
     [base_price |-> 0, unit_price |-> 3000],
     [base_price |-> 1, unit_price |-> 3],
     [base_price |-> 0, unit_price |-> 0]}

\* Durations of the calls: none, 10, 20, 30, 60, 90 and 120 minutes.
CalculatorDurations == {NoDuration, 10, 20, 30, 60, 90, 120}

InitPrice ==
    /\ bookings = << >>
    /\ availabilities = {MondayWindow}
    /\ exceptions = {}
    /\ req = NoReq
    /\ resp = NoResp
    /\ ret = FALSE
    /\ pc = [w \in Workers |-> "idle"]
    /\ local = [w \in Workers |-> IdleLocal]
    /\ recurrences = << >>
    /\ tasks = << >>
    /\ prices \in {[ListPrices EXCEPT ![1] = pr] : pr \in CalculatorPrices}
    /\ reviews = << >>
    /\ rating = [p \in Providers |-> NoRating]
    /\ InitGroupBooking({MaxParticipants})
    /\ cache = [p \in Providers |-> NoEntry]

NextPrice ==
    \/ \E s \in {1, 2}, d \in CalculatorDurations : CallServiceCalculatePrice(s, d)
    \/ \E s \in {1, 2}, d \in CalculatorDurations : CallBookingCalculatePrice(s, d)

SpecPrice == InitPrice /\ [][NextPrice]_vars

----------------------------------------------------------------------------
(* Read-side queries over an arbitrary stored state *)

\* Rows the stored Booking table of the query specification is drawn from.
TableRows ==
    {NewBooking(1, 1, T0), NewBooking(1, 2, T0), NewBooking(2, 1, T0),
     NewBooking(1, 1, T0 + 75)}

Tables == UNION {[1..k -> TableRows] : k \in 0..MaxTable}

\* Weekly windows the stored availability is drawn from: provider 1 on Monday
\* 09:00-17:00 and Monday 16:00-18:00, provider 2 on Tuesday 09:00-17:00.
AvailRows ==
    {MondayWindow,
     [provider |-> 1, day_of_week |-> "Monday",
      start_time |-> 16 * 60, end_time |-> 18 * 60],
     [provider |-> 2, day_of_week |-> "Tuesday",
      start_time |-> 9 * 60, end_time |-> 17 * 60]}

\* Blackout dates the stored exceptions are drawn from: provider 1, the Monday.
ExceptionRows == {[provider |-> 1, date |-> DateOf(T0)]}

\* Candidate instants of the queries: around the booking at T0, at the edges
\* of the Monday windows, and Tuesday 10:00.
ProbeTimes ==
    {T0 - 76, T0 - 75, T0 - 15, T0, T0 + 15, T0 + 16, T0 + 30, T0 + 50,
     T0 + 75, T0 + 76, T0 + 120, T0 + 180,
     9 * 60 - 1, 9 * 60, 17 * 60, 17 * 60 + 1, 18 * 60,
     MinutesPerDay + 10 * 60}

TimeStrings == {NoTimeStr, GarbageStr, BadValueStr} \cup {IsoStr(t) : t \in ProbeTimes}

\* A probe that also stores a booking for the slot it found available.
ProbeAvailability_Holding(p, s, str) ==
    /\ req' = Request("probe", p, s, str)
    /\ resp' = CheckProviderAvailability(bookings, availabilities, p, s, str)
    /\ bookings' = IF resp'.available /\ Len(bookings) < MaxBookings
                   THEN Append(bookings, InsertBooking(Customer, p, s, str.t))
                   ELSE bookings
    /\ UNCHANGED <<availabilities, exceptions, ret, pc, local,
                   recurrences, tasks, catalogVars, groupVars, cache>>

\* CheckAvailabilityView.get / check_availability: the answer is computed
\* from the stored rows; nothing is written.
ProbeAvailability(p, s, str) ==
    /\ req' = Request("probe", p, s, str)
    /\ resp' = CheckProviderAvailability(bookings, availabilities, p, s, str)
    /\ UNCHANGED <<bookings, availabilities, exceptions, ret, pc, local,
                   recurrences, tasks, catalogVars, groupVars, cache>>

\* The one probe of a behaviour of the query specification.
CheckAvailability(p, s, str) ==
    /\ req = NoReq
    /\ ProbeAvailability(p, s, str)

\* A call of check_booking_overlap(provider, t, service)
CallCheckBookingOverlap(p, s, t) ==
    /\ req = NoReq
    /\ req' = Request("overlap", p, s, IsoStr(t))
    /\ ret' = CheckBookingOverlap(bookings, p, t, s)
    /\ UNCHANGED <<bookings, availabilities, exceptions, resp, pc, local,
                   recurrences, tasks, catalogVars, groupVars, cache>>

InitQuery ==
    /\ bookings \in Tables
    /\ availabilities \in SUBSET AvailRows
    /\ exceptions \in SUBSET ExceptionRows
    /\ InitOther

NextQuery ==
    \/ \E p \in Providers \cup {NoneId},
          s \in ServiceIds \cup {NoneId, UnknownService},
          str \in TimeStrings : CheckAvailability(p, s, str)
    \/ \E p \in Providers, s \in ServiceIds, t \in ProbeTimes :
          CallCheckBookingOverlap(p, s, t)

SpecQuery == InitQuery /\ [][NextQuery]_vars

----------------------------------------------------------------------------
(* core/views.py: BookingViewSet.create served by concurrent workers *)

\* Worker w validates its request and runs the overlap query of
\* perform_create against the table as it is now.
BeginCreate(w, p, s, t) ==
    /\ pc[w] = "idle"
    /\ LET verdict == ValidateBooking(p, s, t) IN
       \/ /\ verdict # "ok"
          /\ pc' = [pc EXCEPT ![w] = "done"]
          /\ local' = [local EXCEPT ![w] =
                 [provider |-> p, service |-> s, t |-> t, outcome |-> "invalid"]]
       \/ /\ verdict = "ok"
          /\ CheckBookingOverlap(bookings, p, t, s)
          /\ pc' = [pc EXCEPT ![w] = "done"]
          /\ local' = [local EXCEPT ![w] =
                 [provider |-> p, service |-> s, t |-> t, outcome |-> "conflict"]]
       \/ /\ verdict = "ok"
          /\ ~CheckBookingOverlap(bookings, p, t, s)
          /\ pc' = [pc EXCEPT ![w] = "checked"]
          /\ local' = [local EXCEPT ![w] =
                 [provider |-> p, service |-> s, t |-> t, outcome |-> "none"]]
    /\ UNCHANGED <<bookings, availabilities, exceptions, req, resp, ret,
                   recurrences, tasks, catalogVars, groupVars, cache>>

\* Worker w runs serializer.save inside transaction.atomic: the insert.
SaveBooking(w) ==
    /\ pc[w] = "checked"
    /\ bookings' = Append(bookings,
           InsertBooking(Customer, local[w].provider, local[w].service, local[w].t))
    /\ pc' = [pc EXCEPT ![w] = "done"]
    /\ local' = [local EXCEPT ![w].outcome = "created"]
    /\ tasks' = HandleBookingTasks(tasks, Len(bookings) + 1, TaskKinds).queue
    /\ UNCHANGED <<availabilities, exceptions, req, resp, ret,
                   recurrences, catalogVars, groupVars, cache>>

NextConc ==
    \/ \E w \in Workers, p \in Providers, s \in ServiceIds, t \in CreateTimes :
          BeginCreate(w, p, s, t)
    \/ \E w \in Workers : SaveBooking(w)

SpecConc == Init /\ [][NextConc]_vars

----------------------------------------------------------------------------
(* core/views.py: GroupBookingViewSet.join_group, one request at a time *)

GroupRequest(op, u) == [NoReq EXCEPT !.op = op, !.user = u]

\* A GroupParticipant row of the group booking.
Participant(u) == [user |-> u]

\* POST /group-bookings/<pk>/join/ by user u: the request is refused when
\* the counter has reached max_participants; otherwise a GroupParticipant is
\* created and the counter of the loaded group booking is raised and saved.
JoinGroup(u) ==
    /\ req' = GroupRequest("join_group", u)
    /\ \/ /\ current_participants >= max_participants
          /\ resp' = Response(FALSE, "This group booking is full.", 400)
          /\ UNCHANGED groupVars
       \/ /\ current_participants < max_participants
          /\ participants' = Append(participants, Participant(u))
          /\ current_participants' = current_participants + 1
          /\ resp' = Response(FALSE,
                 "You have successfully joined the group booking.", 200)
          /\ UNCHANGED max_participants
    /\ UNCHANGED <<bookings, availabilities, exceptions, ret, pc, local,
                   recurrences, tasks, catalogVars, cache>>

\* GroupParticipant.objects.create(user=u, group_booking=group_booking) at
\* the model layer: the row is inserted; GroupParticipant has no save
\* override and no signal receiver, so the group booking row is not touched.
ParticipantCreate(u) ==
    /\ Len(participants) <= MaxParticipants
    /\ req' = GroupRequest("participant_create", u)
    /\ participants' = Append(participants, Participant(u))
    /\ resp' = Response(FALSE, "created", 201)
    /\ UNCHANGED <<bookings, availabilities, exceptions, ret, pc, local,
                   recurrences, tasks, catalogVars, max_participants,
                   current_participants, cache>>

InitGroup ==
    /\ bookings = << >>
    /\ availabilities = {MondayWindow}
    /\ exceptions = {}
    /\ InitServer
    /\ InitGroupBooking(1..MaxParticipants)

NextGroup ==
    \/ \E u \in Users : JoinGroup(u)
    \/ \E u \in Users : ParticipantCreate(u)

SpecGroup == InitGroup /\ [][NextGroup]_vars

----------------------------------------------------------------------------
(* core/views.py: join_group served by concurrent workers *)

\* What worker w holds of its join request: the user and the
\* current_participants of the GroupBooking instance get_object loaded.
JoinLocal(u, n, outcome) ==
    [user |-> u, current_participants |-> n, outcome |-> outcome]

\* Worker w loads the group booking (self.get_object()) and compares the
\* counter it read with max_participants.
BeginJoin(w, u) ==
    /\ pc[w] = "idle"
    /\ \/ /\ current_participants >= max_participants
          /\ pc' = [pc EXCEPT ![w] = "done"]
          /\ local' = [local EXCEPT ![w] =
                 JoinLocal(u, current_participants, "full")]
       \/ /\ current_participants < max_participants
          /\ pc' = [pc EXCEPT ![w] = "join_checked"]
          /\ local' = [local EXCEPT ![w] =
                 JoinLocal(u, current_participants, "none")]
    /\ UNCHANGED <<bookings, availabilities, exceptions, req, resp, ret,
                   recurrences, tasks, catalogVars, groupVars, cache>>

\* Worker w runs GroupParticipant.objects.create.
InsertParticipant(w) ==
    /\ pc[w] = "join_checked"
    /\ participants' = Append(participants, Participant(local[w].user))
    /\ pc' = [pc EXCEPT ![w] = "join_created"]
    /\ UNCHANGED <<bookings, availabilities, exceptions, req, resp, ret, local,
                   recurrences, tasks, catalogVars, max_participants,
                   current_participants, cache>>

\* Worker w runs group_booking.current_participants += 1 on the instance it
\* loaded, then group_booking.save(): an UPDATE that writes that value.
SaveGroupBooking(w) ==
    /\ pc[w] = "join_created"
    /\ current_participants' = local[w].current_participants + 1
    /\ pc' = [pc EXCEPT ![w] = "done"]
    /\ local' = [local EXCEPT ![w].outcome = "joined"]
    /\ UNCHANGED <<bookings, availabilities, exceptions, req, resp, ret,
                   recurrences, tasks, catalogVars, max_participants,
                   participants, cache>>

NextJoinConc ==
    \/ \E w \in Workers, u \in Users : BeginJoin(w, u)
    \/ \E w \in Workers : InsertParticipant(w)
    \/ \E w \in Workers : SaveGroupBooking(w)

SpecJoinConc == InitGroup /\ [][NextJoinConc]_vars

----------------------------------------------------------------------------
(* core/views.py, core/utils.py: booking creation while the broker fails *)

\* BookingViewSet.create requests; during each request the broker accepts
\* the dispatches of any subset of the three tasks and refuses the others.
\* The requests are for provider 1 and service 1, at an instant in the
\* past, Monday 12:00, 12:10 and 14:00.
TaskTimes == {60, T0, T0 + 10, T0 + 2 * 60}

NextTasks ==
    \E t \in TaskTimes, up \in SUBSET TaskKinds :
        CreateBooking(1, 1, t, NoRecurrence, up)

SpecTasks == Init /\ [][NextTasks]_vars

----------------------------------------------------------------------------
(* core/views.py, core/models.py: the cached weekly windows *)

\* time.strftime('%H:%M') of a time of day given in minutes.
StrfHourMinute(t) ==
    <<48 + ((t \div 60) \div 10), 48 + ((t \div 60) % 10), 58,
      48 + ((t % 60) \div 10), 48 + ((t % 60) % 10)>>

\* The dict service_provider_availability builds for one row.
AvailabilityItem(av) ==
    [day_of_week |-> av.day_of_week,
     start_time |-> StrfHourMinute(av.start_time),
     end_time |-> StrfHourMinute(av.end_time)]

\* ServiceProviderAvailability.objects.filter(service_provider_id=p), each
\* row as the view lists it.
AvailabilityList(rows, p) ==
    {AvailabilityItem(av) : av \in {x \in rows : x.provider = p}}

\* clear_availability_cache, the post_save / post_delete receiver:
\* cache.delete of the key of instance.service_provider_id.
ClearAvailabilityCache(c, instance) == [c EXCEPT ![instance.provider] = NoEntry]

\* GET of service_provider_availability for provider p: the cached list when
\* the key is present, otherwise the list of the rows, which is then cached.
ServiceProviderAvailabilityGet(p) ==
    /\ req' = Request("service_provider_availability", p, NoneId, NoTimeStr)
    /\ \/ /\ cache[p].hit
          /\ ret' = cache[p].rows
          /\ UNCHANGED cache
       \/ /\ ~cache[p].hit
          /\ ret' = AvailabilityList(availabilities, p)
          /\ cache' = [cache EXCEPT ![p] =
                 [hit |-> TRUE, rows |-> AvailabilityList(availabilities, p)]]
    /\ resp' = Response(FALSE, "listed", 200)
    /\ UNCHANGED <<bookings, availabilities, exceptions, pc, local,
                   recurrences, tasks, catalogVars, groupVars>>

\* ServiceProviderAvailability.objects.create(**row): save, then post_save.
AvailabilityCreate(row) ==
    /\ Cardinality(availabilities) < MaxWindows
    /\ row \notin availabilities
    /\ req' = Request("availability_create", row.provider, NoneId, NoTimeStr)
    /\ availabilities' = availabilities \cup {row}
    /\ cache' = ClearAvailabilityCache(cache, row)
    /\ resp' = Response(FALSE, "created", 201)
    /\ UNCHANGED <<bookings, exceptions, ret, pc, local,
                   recurrences, tasks, catalogVars, groupVars>>

\* A stored row is edited and saved (the admin change form, whose fields
\* include service_provider, day_of_week, start_time and end_time; the
\* viewset's PUT edits all but service_provider): post_save runs with the
\* instance as saved.
AvailabilityUpdate(old, new) ==
    /\ old \in availabilities
    /\ new \notin availabilities
    /\ req' = Request("availability_update", old.provider, NoneId, NoTimeStr)
    /\ availabilities' = (availabilities \ {old}) \cup {new}
    /\ cache' = ClearAvailabilityCache(cache, new)
    /\ resp' = Response(FALSE, "updated", 200)
    /\ UNCHANGED <<bookings, exceptions, ret, pc, local,
                   recurrences, tasks, catalogVars, groupVars>>

\* A stored row is deleted: post_delete.
AvailabilityDelete(row) ==
    /\ row \in availabilities
    /\ req' = Request("availability_delete", row.provider, NoneId, NoTimeStr)
    /\ availabilities' = availabilities \ {row}
    /\ cache' = ClearAvailabilityCache(cache, row)
    /\ resp' = Response(FALSE, "deleted", 204)
    /\ UNCHANGED <<bookings, exceptions, ret, pc, local,
                   recurrences, tasks, catalogVars, groupVars>>

\* The rows the writes of the cache specification use.
WindowRows ==
    {[provider |-> p, day_of_week |-> d, start_time |-> 9 * 60, end_time |-> e] :
        p \in Providers, d \in {"Monday", "Tuesday"}, e \in {12 * 60, 17 * 60}}

NextCache ==
    \/ \E p \in Providers : ServiceProviderAvailabilityGet(p)
    \/ \E row \in WindowRows : AvailabilityCreate(row)
    \/ \E old \in WindowRows, new \in WindowRows : AvailabilityUpdate(old, new)
    \/ \E row \in WindowRows : AvailabilityDelete(row)

SpecCache == Init /\ [][NextCache]_vars

----------------------------------------------------------------------------
(* core/views.py: the while loop of _handle_recurrence, one iteration a step *)

\* Rows the Booking table may reach during one expansion; a loop that wants
\* to insert beyond them is recorded as unfinished.
MaxSeries == 2 * HorizonDays

\* The transaction of perform_create is left: with an exception its writes
\* are undone and the error is the response, otherwise the response is 201.
LeaveAtomic(failed, reason, status) ==
    LET after == Atomic(local[1].before,
                        [bookings |-> bookings, recurrences |-> recurrences],
                        failed)
    IN /\ bookings' = after.bookings
       /\ recurrences' = after.recurrences
       /\ resp' = IF failed THEN Response(FALSE, reason, status)
                  ELSE Response(FALSE, "created", 201)
       /\ pc' = [pc EXCEPT ![1] = "done"]
       /\ UNCHANGED local

\* perform_create up to the loop: an admitted request saves the seed, calls
\* handle_booking_tasks, checks end_date and creates the Recurrence row.
StartRecurrence(p, s, t, rec) ==
    /\ pc[1] = "idle"
    /\ rec # NoRecurrence
    /\ ValidateBooking(p, s, t) = "ok"
    /\ ~CheckBookingOverlap(bookings, p, t, s)
    /\ req' = RecurringRequest(p, s, IsoStr(t), rec)
    /\ tasks' = HandleBookingTasks(tasks, Len(bookings) + 1, TaskKinds).queue
    /\ local' = [local EXCEPT ![1] =
           [current_time |-> t,
            before |-> [bookings |-> bookings, recurrences |-> recurrences]]]
    /\ IF rec.end_date = << >> \/ ParseDate(rec.end_date).tag = "invalid"
       THEN /\ resp' = IF rec.end_date = << >>
                       THEN Response(FALSE, "Recurrence requires an end_date.", 400)
                       ELSE Response(FALSE, "ValidationError", 500)
            /\ pc' = [pc EXCEPT ![1] = "done"]
            /\ UNCHANGED <<bookings, recurrences>>
       ELSE /\ bookings' = Append(bookings, InsertBooking(Customer, p, s, t))
            /\ recurrences' = Append(recurrences,
                   [booking |-> Len(bookings) + 1, frequency |-> rec.frequency,
                    interval |-> rec.interval,
                    end_date |-> ParseDate(rec.end_date).day])
            /\ resp' = NoResp
            /\ pc' = [pc EXCEPT ![1] = "loop"]
    /\ UNCHANGED <<availabilities, exceptions, ret, catalogVars, groupVars, cache>>

\* One evaluation of the while condition and, if it holds, one pass through
\* the body: advance, test the date again, check the overlap, insert.
LoopStep ==
    /\ pc[1] = "loop"
    /\ LET rec == req.recurrence
           current_time == local[1].current_time
           ended(t) == ~StrLeq(IsoFormat(DateOf(t)), rec.end_date)
       IN IF ended(current_time)
          THEN LeaveAtomic(FALSE, "", 201)
          ELSE IF rec.frequency \notin Frequencies
          THEN LeaveAtomic(TRUE, "Invalid recurrence frequency.", 400)
          ELSE LET next == current_time
                               + GetRecurrenceDelta(rec.frequency, rec.interval)
               IN IF ended(next)
                  THEN LeaveAtomic(FALSE, "", 201)
                  ELSE IF CheckBookingOverlap(bookings, req.provider, next, req.service)
                  THEN LeaveAtomic(TRUE,
                         "A recurring appointment conflicts with an existing booking.",
                         400)
                  ELSE IF Len(bookings) >= MaxSeries
                  THEN /\ pc' = [pc EXCEPT ![1] = "unfinished"]
                       /\ UNCHANGED <<bookings, recurrences, resp, local>>
                  ELSE /\ bookings' = Append(bookings,
                              InsertBooking(Customer, req.provider, req.service, next))
                       /\ local' = [local EXCEPT ![1].current_time = next]
                       /\ UNCHANGED <<recurrences, resp, pc>>
    /\ UNCHANGED <<availabilities, exceptions, req, ret, tasks,
                   catalogVars, groupVars, cache>>

\* The rules of the stepwise expansion: every frequency, interval 0, 1 and 2.
LoopRules ==
    {Recurrence(f, i, e) : f \in Frequencies \cup {"yearly"},
                           i \in {0, 1, 2}, e \in EndDateStrings}

NextLoop ==
    \/ \E s \in {1, 2}, t \in SeedTimes, rec \in LoopRules :
          StartRecurrence(1, s, t, rec)
    \/ LoopStep

SpecLoop == InitRecur /\ [][NextLoop]_vars

----------------------------------------------------------------------------
(* core/views.py: repeated availability probes between writes *)

\* Probes for any provider and service, repeated at will, between bookings
\* stored for provider 1 and service 1.
NextProbe ==
    \/ \E p \in Providers \cup {NoneId}, s \in {1, 2, UnknownService},
          str \in {GarbageStr, BadValueStr, IsoStr(T0), IsoStr(T0 + 30),
                   IsoStr(T0 + 2 * 60), IsoStr(17 * 60 + 1)} :
          ProbeAvailability(p, s, str)
    \/ \E t \in CreateTimes : ModelCreate(1, 1, t)

SpecProbe == Init /\ [][NextProbe]_vars

----------------------------------------------------------------------------
(* core/views.py: creating, moving and cancelling bookings of one provider *)

\* Instants of the requests: one in the past, Monday 12:00, 12:30 and 14:00.
SlotTimes == {60, T0, T0 + 30, T0 + 2 * 60}

\* One stored booking of provider 1 at Monday 12:00 that is not cancelled.
InitSlots ==
    /\ bookings \in {<<[NewBooking(1, 1, T0) EXCEPT !.status = st]>> :
                        st \in Statuses \ {"cancelled"}}
    /\ availabilities = {MondayWindow}
    /\ exceptions = {}
    /\ InitOther

NextSlots ==
    \/ \E t \in SlotTimes : PerformCreate(1, 1, t)
    \/ \E i \in 1..Len(bookings),
          str \in {NoTimeStr, GarbageStr, BadValueStr}
                     \cup {IsoStr(t) : t \in SlotTimes \ {60}} :
          RescheduleBooking(i, str)
    \/ \E i \in 1..Len(bookings) : CancelBooking(i)
    \/ \E s \in {1, 2}, t \in SlotTimes : ProbeAvailability(1, s, IsoStr(t))

SpecSlots == InitSlots /\ [][NextSlots]_vars

----------------------------------------------------------------------------
(* core/views.py, core/models.py: cached reads concurrent with writes *)

\* No row: the old row of a create, the new row of a delete.
NoRow == [provider |-> NoneId, day_of_week |-> "", start_time |-> 0, end_time |-> 0]

\* Worker w serves GET service_provider_availability for provider p up to
\* cache.get: a hit is the response, a miss goes on to the query.
CacheGet(w, p) ==
    /\ pc[w] = "idle"
    /\ IF cache[p].hit
       THEN /\ pc' = [pc EXCEPT ![w] = "done"]
            /\ local' = [local EXCEPT ![w] =
                   [provider |-> p, rows |-> cache[p].rows, outcome |-> "hit"]]
       ELSE /\ pc' = [pc EXCEPT ![w] = "read_miss"]
            /\ local' = [local EXCEPT ![w] =
                   [provider |-> p, rows |-> {}, outcome |-> "miss"]]
    /\ UNCHANGED <<bookings, availabilities, exceptions, req, resp, ret,
                   recurrences, tasks, catalogVars, groupVars, cache>>

\* Worker w runs the query and builds the list.
QueryRows(w) ==
    /\ pc[w] = "read_miss"
    /\ local' = [local EXCEPT ![w].rows =
           AvailabilityList(availabilities, local[w].provider)]
    /\ pc' = [pc EXCEPT ![w] = "read_loaded"]
    /\ UNCHANGED <<bookings, availabilities, exceptions, req, resp, ret,
                   recurrences, tasks, catalogVars, groupVars, cache>>

\* Worker w runs cache.set with the list it built and responds.
CacheSet(w) ==
    /\ pc[w] = "read_loaded"
    /\ cache' = [cache EXCEPT ![local[w].provider] =
           [hit |-> TRUE, rows |-> local[w].rows]]
    /\ pc' = [pc EXCEPT ![w] = "done"]
    /\ UNCHANGED <<bookings, availabilities, exceptions, req, resp, ret, local,
                   recurrences, tasks, catalogVars, groupVars>>

\* Worker w writes a row of one provider: a create (old = NoRow), a delete
\* (new = NoRow) or an update that keeps the provider; the row is stored
\* before the receiver of post_save / post_delete runs.
WriteRow(w, old, new) ==
    /\ pc[w] = "idle"
    /\ old # NoRow \/ new # NoRow
    /\ old # NoRow => old \in availabilities
    /\ new # NoRow => new \notin availabilities
    /\ (old # NoRow /\ new # NoRow) => old.provider = new.provider
    /\ old = NoRow => Cardinality(availabilities) < MaxWindows
    /\ availabilities' = (availabilities \ {old}) \cup ({new} \ {NoRow})
    /\ local' = [local EXCEPT ![w] =
           [provider |-> IF new # NoRow THEN new.provider ELSE old.provider,
            rows |-> {}, outcome |-> "saved"]]
    /\ pc' = [pc EXCEPT ![w] = "write_saved"]
    /\ UNCHANGED <<bookings, exceptions, req, resp, ret,
                   recurrences, tasks, catalogVars, groupVars, cache>>

\* Worker w runs clear_availability_cache for the instance it wrote.
SendSignal(w) ==
    /\ pc[w] = "write_saved"
    /\ cache' = ClearAvailabilityCache(cache, local[w])
    /\ pc' = [pc EXCEPT ![w] = "done"]
    /\ UNCHANGED <<bookings, availabilities, exceptions, req, resp, ret, local,
                   recurrences, tasks, catalogVars, groupVars>>

NextCacheConc ==
    \/ \E w \in Workers, p \in Providers : CacheGet(w, p)
    \/ \E w \in Workers : QueryRows(w)
    \/ \E w \in Workers : CacheSet(w)
    \/ \E w \in Workers, old \in WindowRows \cup {NoRow},
          new \in WindowRows \cup {NoRow} : WriteRow(w, old, new)
    \/ \E w \in Workers : SendSignal(w)

SpecCacheConc == Init /\ [][NextCacheConc]_vars

----------------------------------------------------------------------------
(* Properties *)

\* The protected window [start - buffer, start + duration + buffer] of a
\* stored booking, from the booking's own service: t strictly inside it.
InsideProtectedWindow(t, b) ==
    /\ b.t - ServiceRow(b.service).buffer_time < t
    /\ t < b.t + ServiceRow(b.service).duration + ServiceRow(b.service).buffer_time

\* The request is an availability probe with all parameters present and a
\* parsable appointment_time.
ParsedProbe ==
    /\ req.op = "probe"
    /\ req.provider # NoneId
    /\ req.service # NoneId
    /\ req.time.kind = "iso"

ClosedResponse == Response(FALSE, "Provider not available at this time.", 200)

\* C1: concurrent BookingViewSet.create requests of one provider for the same
\* slot never both persist: no state holds two bookings of the same provider
\* at the same appointment_time, and two finished workers that asked for the
\* same provider and instant did not both create.
C1_NoDoubleBooking ==
    /\ \A i, j \in 1..Len(bookings) :
           (i # j /\ bookings[i].provider = bookings[j].provider)
               => bookings[i].t # bookings[j].t
    /\ \A v, w \in Workers :
           (/\ v # w
            /\ local[v].provider = local[w].provider
            /\ local[v].t = local[w].t
            /\ local[v].outcome = "created")
               => local[w].outcome # "created"

\* C2: after any series of BookingViewSet.create requests, no booking starts
\* strictly inside the protected window of another booking of the same
\* provider, the window taken from that other booking's own service.
C2_NoStartInsideOtherWindow ==
    \A i, j \in 1..Len(bookings) :
        (i # j /\ bookings[i].provider = bookings[j].provider)
            => ~InsideProtectedWindow(bookings[i].t, bookings[j])

\* C3: no insert path persists a booking that starts inside the protected
\* window of a booking of the same provider that was already stored: every
\* step that adds a row adds one outside the windows of the stored rows
\* (stated for rows of the new row's own service, the case of
\* test_buffer_time_validation).
C3_InsertRespectsBuffer ==
    [][Len(bookings') > Len(bookings) =>
          \A i \in 1..Len(bookings) :
              (/\ bookings[i].provider = bookings'[Len(bookings')].provider
               /\ bookings[i].service = bookings'[Len(bookings')].service)
                  => ~InsideProtectedWindow(bookings'[Len(bookings')].t, bookings[i])]_vars

\* C4: service 1 (1h, buffer 15m), provider 1 open and with exactly one
\* booking, at T0: the probe reports not available for every candidate
\* strictly between T0-15m and T0+1h15m, available at T0+1h16m and at T0+2h.
C4_BufferWindowProbe ==
    (/\ ParsedProbe
     /\ req.provider = 1
     /\ req.service = 1
     /\ exceptions = {}
     /\ AvailabilityExists(availabilities, 1, req.time.t)
     /\ {i \in 1..Len(bookings) : bookings[i].provider = 1} # {}
     /\ \A i \in 1..Len(bookings) :
            bookings[i].provider = 1 =>
                (/\ bookings[i].t = T0
                 /\ bookings[i].service = 1
                 /\ \A j \in 1..Len(bookings) : bookings[j].provider = 1 => j = i))
        => /\ (T0 - 15 < req.time.t /\ req.time.t < T0 + 75) => ~resp.available
           /\ req.time.t \in {T0 + 76, T0 + 120} => resp.available

\* C5: check_booking_overlap(provider, c, service) is true exactly when the
\* buffer-expanded interval of some booking of that provider (booked with the
\* same service) intersects the candidate's buffer-expanded interval:
\* other.start < candidate.end and other.end > candidate.start.
C5_OverlapIsIntervalIntersection ==
    (/\ req.op = "overlap"
     /\ \A i \in 1..Len(bookings) :
            bookings[i].provider = req.provider => bookings[i].service = req.service)
        => LET d == ServiceRow(req.service).duration
               b == ServiceRow(req.service).buffer_time
               c == req.time.t
           IN ret <=> \E i \in 1..Len(bookings) :
                          /\ bookings[i].provider = req.provider
                          /\ bookings[i].t - b < c + d + b
                          /\ bookings[i].t + d + b > c - b

\* C6: with the provider open and the service existing, the probe reports an
\* overlapping booking exactly when the check of perform_create
\* (check_booking_overlap) returns true on the same table and inputs.
C6_ProbeAgreesWithCreateCheck ==
    (/\ ParsedProbe
     /\ req.service \in ServiceIds
     /\ AvailabilityExists(availabilities, req.provider, req.time.t))
        => ((resp.reason = "Overlapping booking found.")
               <=> CheckBookingOverlap(bookings, req.provider, req.time.t, req.service))

\* C7: if an AvailabilityException of the provider exists on the date of the
\* instant, the probe answers available=false, 'Provider not available at
\* this time.', whatever the weekly windows are.
C7_ExceptionCloses ==
    (/\ ParsedProbe
     /\ \E x \in exceptions :
            x.provider = req.provider /\ x.date = DateOf(req.time.t))
        => resp = ClosedResponse

\* C8: the probe answers available=true only for a service that exists, is
\* active and is among the provider's services_offered.
C8_AvailableOnlyIfActiveAndOffered ==
    (req.op = "probe" /\ resp.available)
        => /\ req.service \in ServiceIds
           /\ ServiceRow(req.service).is_active
           /\ req.service \in ServicesOffered(req.provider)

\* C9: the calendar check of the probe fails exactly when no weekly window
\* of the provider for the weekday of the instant has start_time <= time of
\* day <= end_time (bounds inclusive, windows OR'd); a provider without
\* windows is closed at every instant; a provider open only Monday
\* 09:00-17:00 gets 'Provider not available at this time.' on Tuesday 10:00.
C9_CalendarOpenIffWindowCovers ==
    ParsedProbe =>
        LET t == req.time.t
            day == (t \div (24 * 60)) % 7
            minute == t - (t \div (24 * 60)) * 24 * 60
            own == {a \in availabilities : a.provider = req.provider}
            covering == {a \in own : /\ a.day_of_week = DayNames[day + 1]
                                     /\ a.start_time <= minute
                                     /\ minute <= a.end_time}
        IN /\ (resp = ClosedResponse) <=> (covering = {})
           /\ own = {} => resp = ClosedResponse
           /\ (own = {MondayWindow} /\ t = 24 * 60 + 10 * 60) => resp = ClosedResponse

\* C9 witness: provider 1 has only the Monday 09:00-17:00 window and is asked
\* for Monday 17:00 exactly; the calendar check passed.
C9_Witness ==
    /\ ParsedProbe
    /\ req.provider = 1
    /\ req.time.t = 17 * 60
    /\ {a \in availabilities : a.provider = 1} = {MondayWindow}
    /\ resp # ClosedResponse
    /\ resp.status = 200

\* C10: the probe returns the outcome of the first failing check, in the
\* order missing parameter (400), unparsable time (400), provider closed,
\* service does not exist, overlapping booking (all 200), and available=true
\* with 'Time slot is available.' only when no check failed.
C10_FirstFailingCheckDecides ==
    req.op = "probe" =>
        LET missing == req.provider = NoneId \/ req.service = NoneId
                           \/ req.time.kind = "none"
            unparsable == req.time.kind # "iso"
            closed == ~AvailabilityExists(availabilities, req.provider, req.time.t)
            noservice == req.service \notin ServiceIds
            overlap == RangeOverlap(bookings, req.provider, req.time.t, req.service)
        IN resp =
             IF missing THEN Response(FALSE, "Missing required parameters.", 400)
             ELSE IF unparsable
             THEN Response(FALSE, "Invalid appointment_time format.", 400)
             ELSE IF closed THEN ClosedResponse
             ELSE IF noservice THEN Response(FALSE, "Service does not exist.", 200)
             ELSE IF overlap THEN Response(FALSE, "Overlapping booking found.", 200)
             ELSE Response(TRUE, "Time slot is available.", 200)

\* The request served by the step is a create request with a well-formed
\* recurrence rule (known frequency, interval >= 1, an end date) that was
\* accepted.
ExpandedRule(r, rs) ==
    /\ r.op = "create"
    /\ r.recurrence # NoRecurrence
    /\ r.recurrence.frequency \in Frequencies
    /\ r.recurrence.interval >= 1
    /\ rs.status = 201

\* C11: an accepted recurring request with seed S, step D (n days, 7n days
\* or 30n days) and end date E (the end_date of the stored Recurrence row)
\* adds, after the seed, exactly the bookings at S + k*D for k = 1, 2, ...
\* while the date of S + k*D is not after E: consecutive ones D apart, none
\* after E, none skipped; weekly, interval 1, E = date(S) + 28 from a Monday
\* seed gives 4 occurrences, all on Mondays.
C11_ExpansionIsArithmeticSeries ==
    [][ExpandedRule(req', resp') =>
          LET S == req'.time.t
              rule == req'.recurrence
              days == CASE rule.frequency = "daily" -> rule.interval
                        [] rule.frequency = "weekly" -> 7 * rule.interval
                        [] rule.frequency = "monthly" -> 30 * rule.interval
              D == days * 24 * 60
              E == recurrences'[Len(recurrences')].end_date
              K == Cardinality({k \in 1..HorizonDays : (S + k * D) \div (24 * 60) <= E})
              first == Len(bookings) + 1
          IN /\ Len(bookings') = first + K
             /\ bookings'[first].t = S
             /\ \A k \in 1..K :
                    /\ bookings'[first + k].t = S + k * D
                    /\ bookings'[first + k].provider = req'.provider
                    /\ bookings'[first + k].service = req'.service
             /\ (/\ rule.frequency = "weekly"
                 /\ rule.interval = 1
                 /\ S = T0
                 /\ E = (S \div (24 * 60)) + 28)
                    => /\ K = 4
                       /\ \A k \in 1..K :
                              WeekdayName(bookings'[first + k].t) = "Monday"]_vars

\* The recurring request was refused because an occurrence conflicts.
RecurrenceConflict(rs) ==
    rs.reason = "A recurring appointment conflicts with an existing booking."

\* C12: when the conflict check of an occurrence fails, the request fails
\* with that validation error and nothing of it remains: the Booking table
\* and the Recurrence table are the ones from before the request.
C12_ConflictRollsBackAll ==
    [][(req'.op = "create" /\ RecurrenceConflict(resp'))
           => /\ resp'.status = 400
              /\ bookings' = bookings
              /\ recurrences' = recurrences]_vars

\* C12 witness: a weekly request from Monday 12:00 was refused for its second
\* occurrence (the stored booking two weeks later), after the seed and the
\* first occurrence had been written inside the transaction.
C12_Witness ==
    /\ req.op = "create"
    /\ RecurrenceConflict(resp)
    /\ req.recurrence.frequency = "weekly"
    /\ req.recurrence.interval = 1
    /\ req.time.t = T0
    /\ req.provider = 1
    /\ bookings = <<NewBooking(1, 1, T0 + 14 * MinutesPerDay)>>
    /\ recurrences = << >>

\* C13: once a booking is completed or cancelled, cancel_booking,
\* update_booking and reschedule_booking leave its status as it is; in
\* particular cancel_booking does not move a completed booking to cancelled.
C13_TerminalStatusIsFinal ==
    [][\A i \in 1..Len(bookings) :
           (/\ bookings[i].status \in {"completed", "cancelled"}
            /\ req'.op \in {"cancel", "update", "reschedule"})
               => bookings'[i].status = bookings[i].status]_vars

\* A Decimal without trailing zeros, for comparing values.
RECURSIVE Trim(_)
Trim(x) ==
    IF x.digits = << >> THEN Dec(<< >>, 0)
    ELSE IF x.digits[Len(x.digits)] = 0
    THEN Trim(Dec(SubSeq(x.digits, 1, Len(x.digits) - 1), x.exp + 1))
    ELSE x

\* The Decimal value of an amount of cents.
Money(cents) == Trim(Dec(NatDigits(cents), 0 - 2))

\* C14: a change of a Service's base_price or unit_price changes no
\* booking's total_price; cancel_booking and reschedule_booking leave the
\* stored total_price as it is; the total_price the API reports for a
\* booking is the stored one.
C14_StoredPriceIsFrozen ==
    [][\A i \in 1..Len(bookings) :
           /\ req'.op \in {"service_price", "cancel", "reschedule"}
                  => bookings'[i].total_price = bookings[i].total_price
           /\ (req'.op = "retrieve" /\ req'.booking = i)
                  => Trim(ret') = Money(bookings[i].total_price)]_vars

\* C15: a calculate_price call for a whole-minute duration d (the service's
\* duration when none is given or set) returns base_price + unit_price * d/60
\* exactly: 60 times the result is 60 * base_price + unit_price * d cents;
\* with base 50.00 and unit 25.00, one hour gives 75.00 and two hours 100.00.
C15_PriceIsExact ==
    req.op \in {"service_calculate_price", "booking_calculate_price"} =>
        LET pr == prices[req.service]
            d == IF req.time.t = NoDuration
                 THEN ServiceRow(req.service).duration ELSE req.time.t
        IN /\ Trim(Dec(TimesNat(ret.digits, 60, 0), ret.exp))
                  = Money(60 * pr.base_price + pr.unit_price * d)
           /\ (pr.base_price = 5000 /\ pr.unit_price = 2500 /\ d = 60)
                  => Trim(ret) = Money(7500)
           /\ (pr.base_price = 5000 /\ pr.unit_price = 2500 /\ d = 120)
                  => Trim(ret) = Money(10000)

\* C16: a Review attached to a booking is persisted only if the booking is
\* completed and the review's user is the booking's user; for any other
\* status or user the save fails with a validation error, no Review is
\* added and the provider's rating stays as it was.
C16_ReviewNeedsCompletedOwnBooking ==
    [][req'.op = "review" =>
          LET b == bookings[req'.booking]
              allowed == b.status = "completed" /\ req'.user = b.user
          IN /\ Len(reviews') > Len(reviews) => allowed
             /\ ~allowed => /\ resp'.status = 400
                            /\ reviews' = reviews
                            /\ rating' = rating]_vars

\* C16 witness: a user who is not the booking's user asked to review a
\* completed booking and was refused; there is no review.
C16_Witness ==
    /\ req.op = "review"
    /\ bookings[req.booking].status = "completed"
    /\ req.user # bookings[req.booking].user
    /\ resp.status = 400
    /\ reviews = << >>

\* C17: under any sequence of joins and participant creations the counter
\* equals the number of GroupParticipant rows and never exceeds
\* max_participants, and a join on a full group is refused and changes
\* neither the counter nor the rows.
C17_CounterMatchesParticipants ==
    /\ [](/\ current_participants = Len(participants)
          /\ current_participants <= max_participants)
    /\ [][(req'.op = "join_group" /\ current_participants >= max_participants)
             => /\ resp'.status = 400
                /\ UNCHANGED <<current_participants, participants>>]_vars

\* C18: with concurrent join requests the GroupParticipant rows never
\* outnumber max_participants, and once every request has finished the
\* counter equals the number of rows.
C18_ConcurrentJoinsKeepCount ==
    /\ Len(participants) <= max_participants
    /\ (\A w \in Workers : pc[w] \in {"idle", "done"})
          => current_participants = Len(participants)

\* The request is a create that passes the serializer validation and the
\* overlap check of perform_create on the table as it is.
CreatePassesChecks ==
    /\ req'.op = "create"
    /\ ValidateBooking(req'.provider, req'.service, req'.time.t) = "ok"
    /\ ~CheckBookingOverlap(bookings, req'.provider, req'.time.t, req'.service)

\* C19: handle_booking_tasks attempts the confirmation email, the calendar
\* sync and the invoice exactly once each for the booking, whichever of them
\* the broker refuses, and no refusal reaches the caller: the booking is
\* created and the response is 201.
C19_EachDispatchAttemptedOnce ==
    [][CreatePassesChecks
         => /\ Len(tasks') = Len(tasks) + Len(TaskOrder)
            /\ SubSeq(tasks', 1, Len(tasks)) = tasks
            /\ \A k \in TaskKinds :
                  Cardinality({i \in (Len(tasks) + 1)..Len(tasks') :
                                  /\ tasks'[i].task = k
                                  /\ tasks'[i].booking = Len(bookings')}) = 1
            /\ Len(bookings') = Len(bookings) + 1
            /\ resp'.status = 201]_vars

\* A refused confirmation email is followed by an invoice dispatch for the
\* same booking, and the request was answered 201.
C19_Witness ==
    /\ req.op = "create"
    /\ resp.status = 201
    /\ \E i, j \in 1..Len(tasks) :
          /\ i < j
          /\ tasks[i].booking = Len(bookings)
          /\ tasks[j].booking = Len(bookings)
          /\ tasks[i].task = "email" /\ ~tasks[i].sent
          /\ tasks[j].task = "invoice" /\ tasks[j].sent

\* C20: a cached read returns exactly the rows the provider has at the time
\* of the read, whatever creates, updates and deletes came before it.
C20_ReadReturnsCurrentRows ==
    req.op = "service_provider_availability"
       => ret = AvailabilityList(availabilities, req.provider)


\* The provider is open at instant t: a weekly window of the weekday covers
\* the time of day and the date is no blackout date of the provider.
ProviderOpen(p, t) ==
    /\ \E a \in availabilities :
          /\ a.provider = p
          /\ a.day_of_week = WeekdayName(t)
          /\ a.start_time <= TimeOfDay(t)
          /\ TimeOfDay(t) <= a.end_time
    /\ ~\E x \in exceptions : x.provider = p /\ x.date = DateOf(t)

\* C21: a create request persists its seed booking only at an instant at
\* which the provider is open.
C21_SeedOnlyWhenOpen ==
    [][(req'.op = "create" /\ Len(bookings') > Len(bookings))
          => ProviderOpen(bookings'[Len(bookings) + 1].provider,
                          bookings'[Len(bookings) + 1].t)]_vars


\* C22: a probe leaves the booking, availability, exception and price tables
\* as they are, and a probe that follows a probe with the same inputs, with
\* no write in between, gets the same (available, reason, status).
C22_ProbeIsPureRead ==
    [][req'.op = "probe"
          => /\ UNCHANGED <<bookings, availabilities, exceptions, prices>>
             /\ (req.op = "probe" /\ req' = req) => resp' = resp]_vars

\* C22 witness: a probe for provider 1 was answered 'available' on a table
\* that holds a booking of provider 1.
C22_Witness ==
    /\ req.op = "probe"
    /\ req.provider = 1
    /\ resp.available
    /\ \E i \in 1..Len(bookings) : bookings[i].provider = 1


\* C23: after a successful reschedule the moved booking's instant is not
\* inside the protected window of another booking of the same provider.
C23_RescheduleKeepsNoConflict ==
    [][(req'.op = "reschedule" /\ resp'.status = 200)
          => \A j \in 1..Len(bookings') :
                (/\ j # req'.booking
                 /\ bookings'[j].provider = bookings'[req'.booking].provider)
                    => ~InsideProtectedWindow(bookings'[req'.booking].t, bookings'[j])]_vars

\* The table with every status set to pending.
AllPending(table) == [i \in 1..Len(table) |-> [table[i] EXCEPT !.status = "pending"]]

\* C24: a cancelled or completed booking blocks as a pending one does: both
\* overlap queries give the same answer as on the table with every status
\* pending; a probe at the instant of such a booking is not answered
\* available (and is answered 'Overlapping booking found.' when the provider
\* is open), and a valid create request at that instant is refused.
C24_StatusDoesNotUnblock ==
    /\ \A s \in {1, 2}, t \in SlotTimes :
          /\ CheckBookingOverlap(bookings, 1, t, s)
                <=> CheckBookingOverlap(AllPending(bookings), 1, t, s)
          /\ RangeOverlap(bookings, 1, t, s)
                <=> RangeOverlap(AllPending(bookings), 1, t, s)
    /\ \A i \in 1..Len(bookings) :
          (/\ bookings[i].status \in {"cancelled", "completed"}
           /\ req.provider = bookings[i].provider
           /\ req.time = IsoStr(bookings[i].t))
             => /\ req.op = "probe"
                   => /\ ~resp.available
                      /\ AvailabilityExists(availabilities, req.provider, req.time.t)
                            => resp.reason = "Overlapping booking found."
                /\ (req.op = "create"
                    /\ ValidateBooking(req.provider, req.service, req.time.t) = "ok")
                   => resp.status = 400

\* C24 witness: a create request at the instant of a cancelled booking was
\* refused while no other booking of the provider is stored.
C24_Witness ==
    /\ req.op = "create"
    /\ resp.status = 400
    /\ Len(bookings) = 1
    /\ bookings[1].status = "cancelled"
    /\ req.provider = bookings[1].provider
    /\ req.time = IsoStr(bookings[1].t)


\* C25: on a calendar that holds only booking A, the overlap check of a
\* candidate B of the same provider and service gives the answer that the
\* check of candidate A gives on a calendar that holds only B.
C25_AdmissionIsSymmetric ==
    (/\ req.op = "overlap"
     /\ Len(bookings) = 1
     /\ bookings[1].provider = req.provider
     /\ bookings[1].service = req.service)
        => (ret <=> CheckBookingOverlap(
                       <<NewBooking(req.provider, req.service, req.time.t)>>,
                       req.provider, bookings[1].t, req.service))


\* C26: the date field of every booking is the calendar date of its
\* appointment_time.
C26_DateFollowsAppointmentTime ==
    \A i \in 1..Len(bookings) : bookings[i].date = DateOf(bookings[i].t)

\* C28: every review attached to a booking references a completed booking.
C28_ReviewedBookingStaysCompleted ==
    \A k \in 1..Len(reviews) :
        reviews[k].booking # NoneId
            => bookings[reviews[k].booking].status = "completed"


\* C27: a create request that leaves no booking behind (refused, or rolled
\* back after the seed booking was saved) enqueues no notification task.
C27_NoTaskForRolledBackSeed ==
    [][(req'.op = "create" /\ bookings' = bookings) => tasks' = tasks]_vars


\* C30: every iteration either leaves the loop or adds a row, and no
\* expansion is still running when the table has MaxSeries rows; with
\* interval >= 1 the loop ends, without a further occurrence, at the first
\* advanced date after the rule's end date;
\* with interval 0 an iteration never creates an occurrence, and when the
\* seed's date is not after the end date the request is refused for the
\* conflict with the seed and nothing of it remains.
C30_ExpansionTerminates ==
    /\ [](pc[1] # "unfinished")
    /\ [][pc[1] = "loop"
            => \/ pc'[1] = "done"
               \/ pc'[1] = "loop" /\ Len(bookings') = Len(bookings) + 1]_vars
    /\ [][(pc[1] = "loop" /\ req.recurrence.frequency \in Frequencies)
            => LET rec == req.recurrence
                   current_time == local[1].current_time
                   next == current_time + GetRecurrenceDelta(rec.frequency, rec.interval)
                   E == recurrences[Len(recurrences)].end_date
               IN /\ (rec.interval >= 1 /\ DateOf(next) > E)
                        => /\ pc'[1] = "done"
                           /\ resp'.status = 201
                           /\ bookings' = bookings
                  /\ rec.interval = 0
                        => /\ pc'[1] = "done"
                           /\ DateOf(current_time) <= E
                                 => /\ resp'.status = 400
                                    /\ RecurrenceConflict(resp')
                                    /\ bookings' = local[1].before.bookings
                                    /\ recurrences' = local[1].before.recurrences]_vars


\* C29: once the concurrent read and write have finished, a cache entry of a
\* provider holds exactly the provider's stored rows.
C29_NoStaleEntryAfterRace ==
    (\A w \in Workers : pc[w] \in {"idle", "done"})
        => \A p \in Providers :
              cache[p].hit => cache[p].rows = AvailabilityList(availabilities, p)

====
